---- MODULE Spec2Model ----
(***************************************************************************)
(* Model of the document-question-answering demo:                          *)
(*   app.py   the Streamlit client: one browser session, whose script is   *)
(*            re-run from top to bottom on every widget interaction;       *)
(*   main.py  the FastAPI backend: upload / files / search handlers on one *)
(*            asyncio event loop, the document store and the vector index. *)
(* SpecClient models app.py, SpecBackend models main.py, SpecSplitter      *)
(* applies the text splitter that upload_file configures to long texts.    *)
(***************************************************************************)
EXTENDS Integers, Sequences, FiniteSets, TLC

VARIABLES
    \* ---- app.py: st.session_state and users.json ----
    logged_in,      \* st.session_state["logged_in"]
    username,       \* st.session_state["username"]
    messages,       \* st.session_state["messages"]: sequence of <<sender, text>>
    chat_sessions,  \* st.session_state["chat_sessions"]: name -> message sequence
    user_store,     \* st.session_state["user_store"]: username -> password hash
    users_file,     \* users.json: whether it exists, and the members of its JSON object
    requests,       \* the backend requests the last script run issued, in order
    event,          \* the widget input of the last script run (history variable)
    peer,           \* st.session_state of a second browser session on the same server
    \* ---- main.py: backend state ----
    document_store, \* UPLOAD_FOLDER: filename -> bytes
    vector_db,      \* the Chroma collection: sequence of indexed chunks
    chroma_db,      \* CHROMA_DB_DIR: the index as last flushed by persist()
    handlers,       \* request id -> the state of its handler coroutine
    \* ---- the text splitter applied to one text ----
    text,           \* the text handed to the splitter
    chunks          \* whether it has run, and the chunks it returned, as <<b, e>> offsets

clientVars == <<logged_in, username, messages, chat_sessions, user_store,
                users_file, requests, event, peer>>
backendVars == <<document_store, vector_db, chroma_db, handlers>>
splitterVars == <<text, chunks>>
vars == <<logged_in, username, messages, chat_sessions, user_store, users_file,
          requests, event, peer, document_store, vector_db, chroma_db, handlers,
          text, chunks>>

(***************************************************************************)
(* Bounds of the model.                                                    *)
(***************************************************************************)
MaxMessages == 2    \* Send is disabled once messages would grow beyond this
MaxSessions == 2    \* Save Chat is disabled once this many sessions are saved

EmptyMap == [x \in {} |-> x]

\* min and max of a set of numbers
MinOf(S) == CHOOSE x \in S : \A y \in S : x <= y
MaxOf(S) == CHOOSE x \in S : \A y \in S : x >= y

(***************************************************************************)
(* app.py                                                                  *)
(***************************************************************************)
Usernames == {"", "alice", "bob"}
Passwords == {"", "pw1", "pw2"}
Queries == {"", "q"}
Answers == {"ans"}
UploadNames == {"a.txt"}
None == "None"
NoFile == [exists |-> FALSE, members |-> {}]
YOU == "You"
BOT == "Bot"
ERROR_FETCHING == "Error fetching response"

\* hashlib.sha256(password.encode()).hexdigest(): the digest of a password,
\* distinct from the password and from the digest of any other password
hash_password(password) == <<"sha256", password>>

\* json.load of users.json; {} when the file does not exist
load_users(file) ==
    IF file = NoFile THEN EmptyMap
    ELSE [u \in {m[1] : m \in file.members} |->
            (CHOOSE m \in file.members : m[1] = u)[2]]

\* json.dump of the dict: one member per key
save_users(users) ==
    [exists |-> TRUE, members |-> {<<u, users[u]>> : u \in DOMAIN users}]

\* the users.json files an earlier run of the program can have left behind
StoredFiles ==
    {NoFile} \cup
    UNION {{save_users(f) : f \in [S -> {hash_password(p) : p \in Passwords \ {""}}]}
           : S \in SUBSET (Usernames \ {""})}

NoEvent == [button |-> "start", username |-> "", password |-> "", selected |-> ""]

\* a browser session that has not connected yet
Closed == [open |-> FALSE, logged_in |-> FALSE, username |-> "", messages |-> <<>>,
           chat_sessions |-> EmptyMap, user_store |-> EmptyMap]

\* lines 26-36: the session state of a fresh browser session
ClientInit ==
    /\ logged_in = FALSE
    /\ username = ""
    /\ messages = <<>>
    /\ chat_sessions = EmptyMap
    /\ users_file \in StoredFiles
    /\ user_store = load_users(users_file)
    /\ requests = <<>>
    /\ event = NoEvent
    /\ peer = Closed

\* The session state as one record, threaded through the sections of the script.
SessionState ==
    [logged_in |-> logged_in, username |-> username, messages |-> messages,
     chat_sessions |-> chat_sessions, user_store |-> user_store,
     users_file |-> users_file, requests |-> <<>>, rerun |-> FALSE]

\* lines 50-62: the Sign Up branch
SignUp(s, in) ==
    IF in.button = "signup"
    THEN IF in.username # "" /\ in.password # ""
         THEN IF in.username \in DOMAIN s.user_store
              THEN s
              ELSE LET store == [u \in DOMAIN s.user_store \cup {in.username} |->
                                   IF u = in.username THEN hash_password(in.password)
                                   ELSE s.user_store[u]]
                   IN [s EXCEPT !.user_store = store,
                                !.users_file = save_users(store),
                                !.logged_in = TRUE,
                                !.username = in.username]
         ELSE s
    ELSE s

\* Login without the comparison of hashes of line 66: a known username suffices
LoginAnyPassword(s, in) ==
    IF in.button = "login" /\ in.username \in DOMAIN s.user_store
    THEN [s EXCEPT !.logged_in = TRUE, !.username = in.username]
    ELSE s

\* lines 63-70: the Login branch
Login(s, in) ==
    IF in.button = "login"
    THEN IF /\ in.username \in DOMAIN s.user_store
            /\ s.user_store[in.username] = hash_password(in.password)
         THEN [s EXCEPT !.logged_in = TRUE, !.username = in.username]
         ELSE s
    ELSE s

\* Logout without the assignment of line 74: the username stays
LogoutKeepsUsername(s, in) ==
    IF in.button = "logout"
    THEN [s EXCEPT !.logged_in = FALSE, !.messages = <<>>, !.rerun = TRUE]
    ELSE s

\* lines 71-78: the Logout branch; st.experimental_rerun() ends this run
Logout(s, in) ==
    IF in.button = "logout"
    THEN [s EXCEPT !.logged_in = FALSE, !.username = "", !.messages = <<>>,
                   !.rerun = TRUE]
    ELSE s

\* lines 44-78: the authentication sidebar
Authentication(s, in) ==
    IF ~s.logged_in
    THEN IF in.auth_choice = "Sign Up" THEN SignUp(s, in) ELSE Login(s, in)
    ELSE Logout(s, in)

\* lines 84-94: the file uploader posts the chosen file on every run
UploadWidget(s, in) ==
    IF in.uploaded_file # None
    THEN [s EXCEPT !.requests = Append(@, "upload")]
    ELSE s

\* lines 97-106: the file list is fetched on every run
FileList(s, in) == [s EXCEPT !.requests = Append(@, "files")]

\* lines 112-117: the Send button
Send(s, in) ==
    IF in.button = "send" /\ in.user_input # ""
    THEN LET answer == IF in.search_status = 200 THEN in.answer ELSE ERROR_FETCHING
         IN [s EXCEPT !.messages = Append(Append(@, <<YOU, in.user_input>>),
                                          <<BOT, answer>>),
                      !.requests = Append(@, "search")]
    ELSE s

\* f"Session {n}"
SessionName(n) == "Session " \o ToString(n)

\* Save Chat numbering from the sessions already there, without the + 1 of
\* line 126: the second save takes the name of the first
SaveChatSameName(s, in) ==
    IF in.button = "save"
    THEN LET session_name == SessionName(MaxOf({1, Cardinality(DOMAIN s.chat_sessions)}))
         IN [s EXCEPT !.chat_sessions =
                [n \in DOMAIN s.chat_sessions \cup {session_name} |->
                   IF n = session_name THEN s.messages ELSE s.chat_sessions[n]]]
    ELSE s

\* lines 125-128: the Save Chat button
SaveChat(s, in) ==
    IF in.button = "save"
    THEN LET session_name == SessionName(Cardinality(DOMAIN s.chat_sessions) + 1)
         IN [s EXCEPT !.chat_sessions =
                [n \in DOMAIN s.chat_sessions \cup {session_name} |->
                   IF n = session_name THEN s.messages ELSE s.chat_sessions[n]]]
    ELSE s

\* lines 130-134: the Load Previous Chat select box
LoadChat(s, in) ==
    IF in.selected_session # "" /\ in.selected_session \in DOMAIN s.chat_sessions
    THEN [s EXCEPT !.messages = s.chat_sessions[in.selected_session]]
    ELSE s

\* lines 136-138: the Clear Chat button
ClearChat(s, in) ==
    IF in.button = "clear" THEN [s EXCEPT !.messages = <<>>] ELSE s

\* lines 80-153: everything behind the login gate, in script order
LoggedInPage(s, in) ==
    IF s.logged_in
    THEN ClearChat(LoadChat(SaveChat(Send(FileList(UploadWidget(s, in), in), in), in), in), in)
    ELSE s

\* one run of the script, top to bottom
Script(s, in) ==
    LET a == Authentication(s, in)
    IN IF a.rerun THEN a ELSE LoggedInPage(a, in)

\* The widget values a run can see.  A widget holds a value only if the previous
\* run rendered it: the authentication inputs while logged out (line 44), the
\* uploader, the question box and the session select box while logged in (line 81).
\* The question and the backend's answer are enumerated only for the run that
\* reads them, the one the Send button causes; the run the Logout button causes
\* ends at line 78 and reads none of the widgets below it.
InputsOf(session, button) ==
    IF session.logged_in
    THEN [button : {button}, auth_choice : {"Login"}, username : {""}, password : {""},
          uploaded_file : IF button = "logout" THEN {None} ELSE UploadNames \cup {None},
          user_input : IF button = "send" THEN Queries ELSE {""},
          search_status : IF button = "send" THEN {200, 500} ELSE {200},
          answer : Answers,
          selected_session : IF button = "logout" THEN {""}
                             ELSE {""} \cup DOMAIN session.chat_sessions]
    ELSE [button : {button}, auth_choice : {"Login", "Sign Up"},
          username : Usernames, password : Passwords,
          uploaded_file : {None}, user_input : {""},
          search_status : {200}, answer : Answers,
          selected_session : {""}]

Inputs(button) == InputsOf(SessionState, button)

ScriptRun(in) ==
    LET s == Script(SessionState, in)
    IN /\ Len(s.messages) <= MaxMessages
       /\ Cardinality(DOMAIN s.chat_sessions) <= MaxSessions
       /\ logged_in' = s.logged_in
       /\ username' = s.username
       /\ messages' = s.messages
       /\ chat_sessions' = s.chat_sessions
       /\ user_store' = s.user_store
       /\ users_file' = s.users_file
       /\ requests' = s.requests
       /\ event' = [button |-> in.button, username |-> in.username,
                    password |-> in.password, selected |-> in.selected_session]
       /\ UNCHANGED <<peer, backendVars, splitterVars>>

\* a run per button of the page; "none" is a run caused by any other widget
PressSignUp == ~logged_in /\ \E in \in Inputs("signup") : in.auth_choice = "Sign Up" /\ ScriptRun(in)
PressLogin == ~logged_in /\ \E in \in Inputs("login") : in.auth_choice = "Login" /\ ScriptRun(in)
PressLogout == logged_in /\ \E in \in Inputs("logout") : ScriptRun(in)
PressSend == logged_in /\ \E in \in Inputs("send") : ScriptRun(in)
PressSaveChat == logged_in /\ \E in \in Inputs("save") : ScriptRun(in)
PressClearChat == logged_in /\ \E in \in Inputs("clear") : ScriptRun(in)
Rerun == \E in \in Inputs("none") : ScriptRun(in)

(***************************************************************************)
(* The second browser session.  Streamlit keeps one st.session_state per   *)
(* browser session and runs the same script for each; users.json is the    *)
(* one file of the server's working directory.  Script runs of different   *)
(* sessions are taken one at a time.                                       *)
(***************************************************************************)
\* lines 26-36 in the second session: its user store is loaded when it connects
PeerOpens ==
    /\ ~peer.open
    /\ peer' = [Closed EXCEPT !.open = TRUE, !.user_store = load_users(users_file)]
    /\ UNCHANGED <<logged_in, username, messages, chat_sessions, user_store,
                   users_file, requests, event, backendVars, splitterVars>>

\* the second session's state as the record the script works on
PeerState ==
    [logged_in |-> peer.logged_in, username |-> peer.username,
     messages |-> peer.messages, chat_sessions |-> peer.chat_sessions,
     user_store |-> peer.user_store, users_file |-> users_file,
     requests |-> <<>>, rerun |-> FALSE]

\* one run of the script in the second session
PeerRun(in) ==
    LET s == Script(PeerState, in)
    IN /\ peer' = [open |-> TRUE, logged_in |-> s.logged_in, username |-> s.username,
                   messages |-> s.messages, chat_sessions |-> s.chat_sessions,
                   user_store |-> s.user_store]
       /\ users_file' = s.users_file
       /\ UNCHANGED <<logged_in, username, messages, chat_sessions, user_store,
                      requests, event, backendVars, splitterVars>>

PeerSignUp ==
    /\ peer.open /\ ~peer.logged_in
    /\ \E in \in InputsOf(PeerState, "signup") : in.auth_choice = "Sign Up" /\ PeerRun(in)
PeerLogin ==
    /\ peer.open /\ ~peer.logged_in
    /\ \E in \in InputsOf(PeerState, "login") : in.auth_choice = "Login" /\ PeerRun(in)
PeerLogout ==
    /\ peer.open /\ peer.logged_in
    /\ \E in \in InputsOf(PeerState, "logout") : PeerRun(in)

\* the authentication sidebar used from two browser sessions
SessionsNext ==
    \/ PressSignUp
    \/ PressLogin
    \/ PressLogout
    \/ PeerOpens
    \/ PeerSignUp
    \/ PeerLogin
    \/ PeerLogout

\* one browser session
ClientNext ==
    \/ PressSignUp
    \/ PressLogin
    \/ PressLogout
    \/ PressSend
    \/ PressSaveChat
    \/ PressClearChat
    \/ Rerun

(***************************************************************************)
(* main.py line 113: RecursiveCharacterTextSplitter(chunk_size=500,        *)
(* chunk_overlap=50), with the library's defaults: separators "\n\n",      *)
(* "\n", " ", "", kept at the start of the piece that follows them, and    *)
(* chunks stripped of surrounding whitespace.  A text is a sequence of     *)
(* characters; a piece or chunk of it is the pair <<b, e>> of offsets of   *)
(* text[b:e].  Kept separators make the pieces tile the text, so joining   *)
(* consecutive pieces is again a range of the text.                        *)
(* The library's loops are left folds; they are written here as folds over *)
(* halved index ranges, which visit the same elements in the same order,   *)
(* and each half's result is computed (Computed) before the next half      *)
(* starts, so that the evaluation never nests deeper than the halving.     *)
(***************************************************************************)
chunk_size == 500
chunk_overlap == 50
Separators == << <<"\n", "\n">>, <<"\n">>, <<" ">>, <<>> >>

\* str.isspace for the characters of the model
IsSpace(c) == c \in {" ", "\n", "\t", "\r", "\f"}

\* TRUE, once v has been evaluated
Computed(v) == v = v

\* _join_docs: "".join(docs).strip(), None when nothing is left;
\* the result as a sequence of zero or one chunk
JoinDocs(t, b, e) ==
    LET inked == {i \in (b + 1)..e : ~IsSpace(t[i])}
    IN IF inked = {} THEN <<>> ELSE << <<MinOf(inked) - 1, MaxOf(inked)>> >>

\* one turn of the while loop when no overlap is kept: pieces are dropped until
\* none is left
MergePopAll(P, st, len) ==
    IF st.total > 0
    THEN [st EXCEPT !.total = @ - (P[st.first][2] - P[st.first][1]),
                    !.first = @ + 1]
    ELSE st

\* the condition of the while loop of _merge_splits, and one turn of it
MergePop(P, st, len) ==
    IF st.total > chunk_overlap \/ (st.total + len > chunk_size /\ st.total > 0)
    THEN [st EXCEPT !.total = @ - (P[st.first][2] - P[st.first][1]),
                    !.first = @ + 1]
    ELSE st

\* the while loop: at most n turns
RECURSIVE MergePopWhile(_, _, _, _)
MergePopWhile(P, st, len, n) ==
    IF n <= 0 THEN st
    ELSE IF n = 1 THEN MergePop(P, st, len)
    ELSE LET half == MergePopWhile(P, st, len, n \div 2)
         IN IF Computed(half) THEN MergePopWhile(P, half, len, n - n \div 2) ELSE half

\* the body of the for loop of _merge_splits for piece i up to the append;
\* current_doc is the pieces st.first .. i-1 and st.total their length
MergeFlush(t, P, st, i, len) ==
    IF st.total + len > chunk_size /\ st.first <= i - 1
    THEN MergePopWhile(P,
             [st EXCEPT !.docs = @ \o JoinDocs(t, P[st.first][1], P[i - 1][2])],
             len, i - st.first)
    ELSE st

\* the body of the for loop of _merge_splits for piece i
MergeStep(t, P, st, i) ==
    [MergeFlush(t, P, st, i, P[i][2] - P[i][1]) EXCEPT !.total = @ + (P[i][2] - P[i][1])]

RECURSIVE MergeFold(_, _, _, _, _)
MergeFold(t, P, st, lo, hi) ==
    IF lo > hi THEN st
    ELSE IF lo = hi THEN MergeStep(t, P, st, lo)
    ELSE LET mid == (lo + hi) \div 2
             half == MergeFold(t, P, st, lo, mid)
         IN IF Computed(half) THEN MergeFold(t, P, half, mid + 1, hi) ELSE half

\* _merge_splits over the pieces P[lo..hi]
MergeSplits(t, P, lo, hi) ==
    LET st == MergeFold(t, P, [first |-> lo, total |-> 0, docs |-> <<>>], lo, hi)
    IN IF st.first <= hi
       THEN st.docs \o JoinDocs(t, P[st.first][1], P[hi][2])
       ELSE st.docs

\* whether separator sep stands at offset i of text[:e]
MatchAt(t, i, e, sep) ==
    /\ i + Len(sep) <= e
    /\ \A k \in 1..Len(sep) : t[i + k] = sep[k]

\* re.search(separator, text[b:e])
Occurs(t, b, e, sep) == \E i \in b..(e - 1) : MatchAt(t, i, e, sep)

\* re.split: the leftmost non-overlapping matches, scanned left to right
ScanStep(t, e, sep, st, i) ==
    IF i >= st.next /\ MatchAt(t, i, e, sep)
    THEN [next |-> i + Len(sep), cuts |-> Append(st.cuts, i)]
    ELSE st

RECURSIVE ScanFold(_, _, _, _, _, _)
ScanFold(t, e, sep, st, lo, hi) ==
    IF lo > hi THEN st
    ELSE IF lo = hi THEN ScanStep(t, e, sep, st, lo)
    ELSE LET mid == (lo + hi) \div 2
             half == ScanFold(t, e, sep, st, lo, mid)
         IN IF Computed(half) THEN ScanFold(t, e, sep, half, mid + 1, hi) ELSE half

\* _split_text_with_regex(text[b:e], separator, keep_separator=True): the text
\* before the first match, then every match with the text that follows it;
\* empty pieces dropped.  With the empty separator: list(text).
SplitTextWithRegex(t, b, e, sep) ==
    IF sep = <<>>
    THEN [i \in 1..(e - b) |-> <<b + i - 1, b + i>>]
    ELSE LET cuts == ScanFold(t, e, sep, [next |-> b, cuts |-> <<>>], b, e - 1).cuts
             bounds == <<b>> \o cuts \o <<e>>
             all == [i \in 1..(Len(bounds) - 1) |-> <<bounds[i], bounds[i + 1]>>]
         IN SelectSeq(all, LAMBDA p : p[1] < p[2])

\* the first separator of separators[k:] that is "" or occurs in text[b:e]
RECURSIVE PickSeparator(_, _, _, _)
PickSeparator(t, b, e, k) ==
    IF k >= Len(Separators) \/ Separators[k] = <<>> \/ Occurs(t, b, e, Separators[k])
    THEN k
    ELSE PickSeparator(t, b, e, k + 1)

\* RecursiveCharacterTextSplitter._split_text(text[b:e], separators[k:])
RECURSIVE SplitRange(_, _, _, _)
RECURSIVE SplitFold(_, _, _, _, _, _)

\* the body of its for loop for piece i; the pending _good_splits are the
\* pieces st.good .. i-1
SplitStep(t, P, new, st, i) ==
    IF P[i][2] - P[i][1] < chunk_size
    THEN st
    ELSE LET merged == IF st.good <= i - 1
                       THEN st.final \o MergeSplits(t, P, st.good, i - 1)
                       ELSE st.final
         IN [good |-> i + 1,
             final |-> IF new = 0
                       THEN Append(merged, P[i])
                       ELSE merged \o SplitRange(t, P[i][1], P[i][2], new)]

SplitFold(t, P, new, st, lo, hi) ==
    IF lo > hi THEN st
    ELSE IF lo = hi THEN SplitStep(t, P, new, st, lo)
    ELSE LET mid == (lo + hi) \div 2
             half == SplitFold(t, P, new, st, lo, mid)
         IN IF Computed(half) THEN SplitFold(t, P, new, half, mid + 1, hi) ELSE half

SplitRange(t, b, e, k) ==
    LET s == PickSeparator(t, b, e, k)
        sep == Separators[s]
        \* new_separators: the separators after the chosen one; none after ""
        new == IF sep = <<>> THEN 0 ELSE s + 1
        P == SplitTextWithRegex(t, b, e, sep)
        st == SplitFold(t, P, new, [good |-> 1, final |-> <<>>], 1, Len(P))
    IN IF st.good <= Len(P)
       THEN st.final \o MergeSplits(t, P, st.good, Len(P))
       ELSE st.final

\* split_text(text): the chunks, in order, as offset ranges of the text
SplitText(t) == SplitRange(t, 0, Len(t), 1)

\* the string a chunk stands for
ChunkText(t, c) == SubSeq(t, c[1] + 1, c[2])

(***************************************************************************)
(* main.py: the handlers.  Requests are numbered in order of arrival.  A   *)
(* handler is a coroutine on one event loop: it runs without interruption  *)
(* from one await to the next.  upload_file has a single await, the        *)
(* file.read() of line 98, inside the with block that has already opened   *)
(* (and so created or truncated) the target file; everything after it, the *)
(* loader, the splitter, add_documents and persist, is synchronous.  The   *)
(* other handlers have no await.  The calls that leave the program (the    *)
(* file system, the loaders, the embedding model, Chroma, the language     *)
(* model) either return or raise: which one is the request's fault.        *)
(***************************************************************************)
MaxRequests == 3    \* the number of requests served

Requests == 1..MaxRequests

A_TXT == <<"a", ".", "t", "x", "t">>
B_PDF == <<"b", ".", "p", "d", "f">>
C_EXE == <<"c", ".", "e", "x", "e">>
Filenames == {A_TXT, B_PDF, C_EXE}
Contents == {<<"x">>, <<"y", "z">>}
UploadFaults == {"none", "open", "read", "load", "split", "add", "persist"}

\* str.endswith
endswith(s, suffix) ==
    /\ Len(s) >= Len(suffix)
    /\ SubSeq(s, Len(s) - Len(suffix) + 1, Len(s)) = suffix

PDF == <<".", "p", "d", "f">>
TXT == <<".", "t", "x", "t">>

\* lines 101-105: the extensions that get a loader
Supported(filename) == endswith(filename, PDF) \/ endswith(filename, TXT)

Idle == [kind |-> "none", pc |-> "idle", filename |-> <<>>, data |-> <<>>,
         fault |-> "none", raised |-> "none", status |-> 0, chunks |-> <<>>,
         body |-> {}]

BackendInit ==
    /\ document_store = EmptyMap
    /\ vector_db = <<>>
    /\ chroma_db = <<>>
    /\ handlers = [r \in Requests |-> Idle]

\* the request that arrives next
Arrives(r) ==
    /\ handlers[r].pc = "idle"
    /\ \A q \in Requests : q < r => handlers[q].pc # "idle"

\* an open that empties the folder of everything but the file opened
OpenWbAlone(store, filename) == [f \in {filename} |-> <<>>]

\* line 97: open(file_path, "wb") creates the file, or truncates the one there
OpenWb(store, filename) ==
    [f \in DOMAIN store \cup {filename} |-> IF f = filename THEN <<>> ELSE store[f]]

\* line 98: buffer.write(data) on the descriptor opened at line 97, whose offset
\* is 0: the bytes replace the first Len(data) bytes of whatever the file holds
\* by now, and what lies beyond them stays
WriteAtStart(store, filename, data) ==
    [store EXCEPT ![filename] = data \o SubSeq(@, Len(data) + 1, Len(@))]

\* lines 101-104 and 112: loader.load() reads the file back from the document
\* store: one Document with the file's text and its path (a PDF is taken to be
\* of one page)
LoadDocuments(store, filename) ==
    << [page_content |-> store[filename], source |-> filename] >>

\* line 114: split_documents: the chunks of every document, with its metadata
RECURSIVE SplitDocuments(_)
SplitDocuments(documents) ==
    IF documents = <<>> THEN <<>>
    ELSE LET doc == Head(documents)
             parts == SplitText(doc.page_content)
         IN [i \in 1..Len(parts) |->
               [page_content |-> ChunkText(doc.page_content, parts[i]),
                source |-> doc.source]]
            \o SplitDocuments(Tail(documents))

\* lines 122-125: any exception becomes a 500
Failed(h, step) ==
    [h EXCEPT !.pc = "done", !.status = 500, !.raised = step, !.body = {"error"}]

\* lines 106-109: the response to an unsupported extension
Unsupported(h) == [h EXCEPT !.pc = "done", !.status = 400, !.body = {"error"}]

\* line 120: the response to an upload that went through
Uploaded(h, chunked) ==
    [h EXCEPT !.pc = "done", !.status = 200, !.chunks = chunked,
              !.body = {"message", "filename"}]

\* lines 94-98, up to the await: the path is joined and the file opened
UploadOpen(r, filename, data, fault) ==
    LET h == [Idle EXCEPT !.kind = "upload", !.filename = filename, !.data = data,
                          !.fault = fault]
    IN /\ Arrives(r)
       /\ IF fault = "open"
          THEN /\ handlers' = [handlers EXCEPT ![r] = Failed(h, "open")]
               /\ UNCHANGED document_store
          ELSE /\ handlers' = [handlers EXCEPT ![r] = [h EXCEPT !.pc = "reading"]]
               /\ document_store' = OpenWb(document_store, filename)
       /\ UNCHANGED <<vector_db, chroma_db, clientVars, splitterVars>>

\* lines 98-125 with an exception of persist() passed over: the upload answers
\* 200 although the index was not flushed
UploadRestUnflushed(h, store, stored, chunked, index, flushed) ==
    LET out(st, ix, fl, hd) == [store |-> st, index |-> ix, flushed |-> fl, handler |-> hd]
    IN IF h.fault = "read"
       THEN out(store, index, flushed, Failed(h, "read"))
       ELSE IF ~Supported(h.filename)
       THEN out(stored, index, flushed, Unsupported(h))
       ELSE IF h.fault \in {"load", "split", "add"}
       THEN out(stored, index, flushed, Failed(h, h.fault))
       ELSE IF h.fault = "persist"
       THEN out(stored, index \o chunked, flushed, Uploaded(h, chunked))
       ELSE out(stored, index \o chunked, index \o chunked, Uploaded(h, chunked))

\* the outcome of lines 98-125 once file.read() has returned, as
\* [store, index, flushed, handler]; stored is the document store after the
\* write of line 98 and chunked the chunks of the file as it then reads
UploadRest(h, store, stored, chunked, index, flushed) ==
    LET out(st, ix, fl, hd) == [store |-> st, index |-> ix, flushed |-> fl, handler |-> hd]
    IN IF h.fault = "read"
       THEN out(store, index, flushed, Failed(h, "read"))
       ELSE IF ~Supported(h.filename)
       THEN out(stored, index, flushed, Unsupported(h))
       ELSE IF h.fault = "load"
       THEN out(stored, index, flushed, Failed(h, "load"))
       ELSE IF h.fault = "split"
       THEN out(stored, index, flushed, Failed(h, "split"))
       ELSE IF h.fault = "add"
       THEN out(stored, index, flushed, Failed([h EXCEPT !.chunks = chunked], "add"))
       ELSE IF h.fault = "persist"
       THEN out(stored, index \o chunked, flushed,
                Failed([h EXCEPT !.chunks = chunked], "persist"))
       ELSE out(stored, index \o chunked, index \o chunked, Uploaded(h, chunked))

\* lines 98-125: the handler resumes when file.read() returns and runs to its end
UploadResume(r) ==
    /\ handlers[r].pc = "reading"
    /\ \E stored \in {WriteAtStart(document_store, handlers[r].filename, handlers[r].data)} :
       \E chunked \in {SplitDocuments(LoadDocuments(stored, handlers[r].filename))} :
       \E o \in {UploadRest(handlers[r], document_store, stored, chunked,
                            vector_db, chroma_db)} :
          /\ document_store' = o.store
          /\ vector_db' = o.index
          /\ chroma_db' = o.flushed
          /\ handlers' = [handlers EXCEPT ![r] = o.handler]
    /\ UNCHANGED <<clientVars, splitterVars>>

\* line 86: os.listdir(UPLOAD_FOLDER)
Listing(store) == DOMAIN store

\* lines 83-89: the file listing endpoint
ListFiles(r, fault) ==
    LET h == [Idle EXCEPT !.kind = "files"]
    IN /\ Arrives(r)
       /\ handlers' = [handlers EXCEPT ![r] =
             IF fault = "none"
             THEN [h EXCEPT !.pc = "done", !.status = 200, !.body = Listing(document_store)]
             ELSE Failed(h, "listdir")]
       /\ UNCHANGED <<document_store, vector_db, chroma_db, clientVars, splitterVars>>

\* lines 62-80: the chain answers and the index returns the most similar chunks;
\* which chunks those are is the embedding model's business: any of them
SearchQuery(r, fault) ==
    LET h == [Idle EXCEPT !.kind = "search"]
    IN /\ Arrives(r)
       /\ \/ /\ fault = "none"
             /\ \E hits \in SUBSET (1..Len(vector_db)) :
                   handlers' = [handlers EXCEPT ![r] =
                       [h EXCEPT !.pc = "done", !.status = 200,
                                 !.body = {vector_db[i].page_content : i \in hits}]]
          \/ /\ fault # "none"
             /\ handlers' = [handlers EXCEPT ![r] = Failed(h, "search")]
       /\ UNCHANGED <<document_store, vector_db, chroma_db, clientVars, splitterVars>>

BackendNext ==
    \/ \E r \in Requests, filename \in Filenames, data \in Contents,
          fault \in UploadFaults : UploadOpen(r, filename, data, fault)
    \/ \E r \in Requests : UploadResume(r)
    \/ \E r \in Requests, fault \in {"none", "listdir"} : ListFiles(r, fault)
    \/ \E r \in Requests, fault \in {"none", "search"} : SearchQuery(r, fault)

(***************************************************************************)
(* Each program is checked on its own; the variables of the others rest.   *)
(***************************************************************************)
ClientOff ==
    /\ logged_in = FALSE
    /\ username = ""
    /\ messages = <<>>
    /\ chat_sessions = EmptyMap
    /\ users_file = NoFile
    /\ user_store = EmptyMap
    /\ requests = <<>>
    /\ event = NoEvent
    /\ peer = Closed

BackendOff ==
    /\ document_store = EmptyMap
    /\ vector_db = <<>>
    /\ chroma_db = <<>>
    /\ handlers = EmptyMap

Unsplit == [split |-> FALSE, list |-> <<>>]

SplitterOff ==
    /\ text = <<>>
    /\ chunks = Unsplit

\* app.py, one browser session
SpecClientInit == ClientInit /\ BackendOff /\ SplitterOff
SpecClient == SpecClientInit /\ [][ClientNext]_vars

\* app.py, the authentication of two browser sessions
SpecSessions == SpecClientInit /\ [][SessionsNext]_vars

\* main.py, MaxRequests requests
SpecBackendInit == BackendInit /\ ClientOff /\ SplitterOff
SpecBackend == SpecBackendInit /\ [][BackendNext]_vars

(***************************************************************************)
(* The splitter applied to long texts.                                     *)
(***************************************************************************)
MaxLen == 1000      \* the longest text split

\* the texts split: n characters, laid out as words of "a" of a fixed width
\* around a separator (none, a space, a newline, a blank line), or all blank
Layouts ==
    {[sep |-> <<>>, every |-> 1]}
    \cup [sep : {<<" ">>, <<"\n">>, <<"\n", "\n">>}, every : {7, 120, 301, 620}]
    \cup {[sep |-> <<" ">>, every |-> 1]}

TextOf(n, lay) ==
    [i \in 1..n |->
        IF lay.sep = <<>> THEN "a"
        ELSE IF i % lay.every = 0 THEN lay.sep[Len(lay.sep)]
        ELSE IF Len(lay.sep) = 2 /\ i % lay.every = lay.every - 1 THEN lay.sep[1]
        ELSE "a"]

Lengths == {n \in 0..MaxLen : n % 50 \in {0, 1, 49}}

Texts == {TextOf(n, lay) : n \in Lengths, lay \in Layouts}

SplitterInit ==
    /\ text \in Texts
    /\ chunks = Unsplit
    /\ ClientOff
    /\ BackendOff

\* text_splitter.split_text(text)
Split ==
    /\ chunks = Unsplit
    /\ chunks' = [split |-> TRUE, list |-> SplitText(text)]
    /\ UNCHANGED <<text, clientVars, backendVars>>

SplitterNext == Split

SpecSplitter == SplitterInit /\ [][SplitterNext]_vars

(***************************************************************************)
(* Properties of main.py, checked under SpecBackend.                       *)
(***************************************************************************)
\* the handler of request r is an upload that has answered
UploadDone(r) == handlers[r].kind = "upload" /\ handlers[r].pc = "done"

\* the fault of an upload strikes a step the handler gets to: the steps after
\* line 105 are reached only with a supported extension
Raises(h) ==
    h.fault \in (IF Supported(h.filename) THEN UploadFaults \ {"none"}
                 ELSE {"open", "read"})

\* every chunk of the sequence cs is an element of the index ix
Indexed(cs, ix) == \A i \in 1..Len(cs) : \E j \in 1..Len(ix) : ix[j] = cs[i]

\* C1: an upload whose filename ends in neither .pdf nor .txt is answered with
\* an error and writes nothing: no step of its handler changes the document
\* store, the index or the flushed index, and its response is not a 200.
C1_UnsupportedUploadWritesNothing ==
    [][\A r \in Requests :
          (/\ handlers'[r] # handlers[r]
           /\ handlers'[r].kind = "upload"
           /\ ~Supported(handlers'[r].filename))
          => /\ document_store' = document_store
             /\ vector_db' = vector_db
             /\ chroma_db' = chroma_db
             /\ handlers'[r].pc = "done" => handlers'[r].status \in {400, 500}]_vars

C6_LastWriteWins ==
    \A r, q \in Requests :
        (/\ r # q
         /\ UploadDone(r) /\ UploadDone(q)
         /\ handlers[r].filename = handlers[q].filename
         /\ handlers[r].raised \notin {"open", "read"}
         /\ handlers[q].raised \notin {"open", "read"})
        => document_store[handlers[r].filename] \in {handlers[r].data, handlers[q].data}

\* the file f has been uploaded: an upload of it has answered 200
Uploaded200(f) ==
    \E r \in Requests :
        UploadDone(r) /\ handlers[r].filename = f /\ handlers[r].status = 200

C9_FailedUploadLeavesIndex ==
    [][\A r \in Requests :
          (/\ handlers[r].pc # "done"
           /\ handlers'[r].pc = "done"
           /\ handlers'[r].kind = "upload"
           /\ handlers'[r].status = 500)
          => vector_db' = vector_db]_vars

(***************************************************************************)
(* Properties of the splitter, checked under SpecSplitter.                 *)
(***************************************************************************)
ChunkLen(c) == c[2] - c[1]

\* the text has a character that is not whitespace
HasInk(t) == \E i \in 1..Len(t) : ~IsSpace(t[i])

\* the text has no whitespace: none of the separators "\n\n", "\n", " " occurs
NoWhitespace(t) == \A i \in 1..Len(t) : ~IsSpace(t[i])

\* each chunk starts exactly chunk_size - chunk_overlap after the one before
\* it, and only the last chunk is shorter than chunk_size
FixedStride(cs) ==
    /\ \A i \in 2..Len(cs) : cs[i][1] = cs[i - 1][1] + (chunk_size - chunk_overlap)
    /\ \A i \in 1..(Len(cs) - 1) : ChunkLen(cs[i]) = chunk_size

C3_FirstHashKept ==
    [][\A u \in DOMAIN load_users(users_file) :
          /\ u \in DOMAIN load_users(users_file')
          /\ load_users(users_file')[u] = load_users(users_file)[u]]_vars

\* C4: a login sets logged_in exactly when the username is in the user store
\* and the stored hash is the hash of the password given; a run issues backend
\* requests and changes the chat sessions only with logged_in set, and the
\* messages change only in a session that was logged in.
C4_LoginGate ==
    [][/\ event'.button = "login"
          => (logged_in' <=> /\ event'.username \in DOMAIN user_store
                             /\ user_store[event'.username] = hash_password(event'.password))
       /\ requests' # <<>> => logged_in'
       /\ chat_sessions' # chat_sessions => logged_in /\ logged_in'
       /\ messages' # messages => logged_in]_vars

\* C4 witness: the last run was a login that succeeded and went on to fetch the
\* file list
C4_Witness ==
    /\ event.button = "login"
    /\ logged_in
    /\ username = event.username
    /\ user_store[username] = hash_password(event.password)
    /\ requests # <<>>

\* C5: Save Chat stores the messages of that moment under a name that was not
\* in use; no step changes or removes a session once saved; and a run with a
\* saved session selected (and Clear Chat not pressed) ends with exactly the
\* messages of that session.
C5_Snapshot ==
    [][/\ (event'.button = "save" /\ logged_in)
          => \E n \in DOMAIN chat_sessions' \ DOMAIN chat_sessions :
                /\ DOMAIN chat_sessions' = DOMAIN chat_sessions \cup {n}
                /\ chat_sessions'[n] = messages
       /\ \A n \in DOMAIN chat_sessions :
             n \in DOMAIN chat_sessions' /\ chat_sessions'[n] = chat_sessions[n]
       /\ (/\ event'.selected \in DOMAIN chat_sessions
           /\ event'.button # "clear")
          => messages' = chat_sessions[event'.selected]]_vars

\* C5 witness: two different chats were saved and the first, not empty, has
\* been loaded back after the second was saved
C5_Witness ==
    /\ DOMAIN chat_sessions = {SessionName(1), SessionName(2)}
    /\ chat_sessions[SessionName(1)] # <<>>
    /\ chat_sessions[SessionName(1)] # chat_sessions[SessionName(2)]
    /\ event.selected = SessionName(1)
    /\ messages = chat_sessions[SessionName(1)]

\* C10: logged_in is false exactly when the username is empty; Logout sets
\* logged_in to false, the username to "" and the messages to empty and leaves
\* the user store, users.json and the chat sessions as they were; and neither
\* logging out nor logging in or signing up changes the chat sessions, which
\* the next user to log in therefore finds.
C10_Logout ==
    /\ [](logged_in <=> username # "")
    /\ [][/\ event'.button = "logout"
             => /\ ~logged_in' /\ username' = "" /\ messages' = <<>>
                /\ user_store' = user_store
                /\ users_file' = users_file
                /\ chat_sessions' = chat_sessions
          /\ event'.button \in {"logout", "login", "signup"}
             => chat_sessions' = chat_sessions]_vars

\* C10 witness: a user has logged out leaving a saved, non-empty chat behind
C10_Witness ==
    /\ event.button = "logout"
    /\ ~logged_in /\ username = "" /\ messages = <<>>
    /\ user_store # EmptyMap
    /\ \E n \in DOMAIN chat_sessions : chat_sessions[n] # <<>>

====
